---- MODULE Spec2Model ----
(***************************************************************************)
(* Model of the iarc7_safety node: the SafetyClient class                  *)
(* (src/src/iarc7_safety/SafetyClient.cpp) and the safety monitor's main() *)
(* (src/src/SafetyMonitor.cpp).                                            *)
(*                                                                         *)
(* The process is single threaded.  Bond callbacks and "safety" topic      *)
(* callbacks run only inside ros::spinOnce(), which is called from         *)
(* SafetyClient::waitUntilSafe (startup) and from the main loop.  A        *)
(* message on the topic is handed to every SafetyClient that is            *)
(* subscribed, inside the same spinOnce.  ros::ok() turns false            *)
(* asynchronously (shutdown request).                                      *)
(*                                                                         *)
(* Indices: the code's vectors are 0-based, TLA+ sequences 1-based.        *)
(* lowest_safe_priority keeps the code's values (-1 .. N-1); element i of  *)
(* the code's vector is element i+1 of the sequence.                       *)
(***************************************************************************)
EXTENDS Integers, Sequences, FiniteSets, TLC

\* Largest configured bond id list that is explored.
MaxN == 3

\* Pool the configured bond id lists are taken from.
IdPool == <<"A", "B", "C", "D", "E">>

\* A string on the topic that is neither a configured id nor the sentinel.
OtherMsg == "X"

VARIABLES
    bond_ids,               \* the bondIds parameter (SafetyMonitor.cpp:56)
    lowest_safe_priority,   \* SafetyMonitor.cpp:61
    bonds,                  \* vector of SafetyClients (SafetyMonitor.cpp:64)
    bond_ptr,               \* client built but not yet pushed (line 69); <<>> when moved-from
    it,                     \* 0-based position of the range-for over bond_ids (line 65)
    success,                \* result of the last formBond() (line 72): "true", "false"; "none" before the first
    pc,                     \* position of main()
    ok,                     \* ros::ok()
    pubs,                   \* messages published by the current cycle (lines 126, 137)
    chan                    \* messages published by this node, not yet dispatched to the subscribers

vars == <<bond_ids, lowest_safe_priority, bonds, bond_ptr, it, success, pc, ok, pubs, chan>>

----------------------------------------------------------------------------
(* SafetyClient *)

\* The sentinel compared against in processSafetyMessage.
fatal_message_ == "FATAL"

\* Value of the four flags of a freshly constructed SafetyClient.
FlagDefault == FALSE

\* SafetyClient::SafetyClient
NewClient(bond_id) ==
    [ bond_id_       |-> bond_id,
      broken_        |-> FlagDefault,
      formed_        |-> FlagDefault,
      safety_active_ |-> FlagDefault,
      fatal_active_  |-> FlagDefault ]

\* SafetyClient::processSafetyMessage, buggy variant: FATAL sets only fatal_active_
processSafetyMessage_FatalOnly(c, data) ==
    IF data = c.bond_id_
        THEN [c EXCEPT !.safety_active_ = TRUE]
    ELSE IF data = fatal_message_
        THEN [c EXCEPT !.fatal_active_ = TRUE]
    ELSE c

\* SafetyClient::processSafetyMessage, buggy variant: the flag follows the last message
processSafetyMessage_Assign(c, data) ==
    IF data = fatal_message_ /\ data # c.bond_id_
        THEN [c EXCEPT !.safety_active_ = TRUE, !.fatal_active_ = TRUE]
    ELSE [c EXCEPT !.safety_active_ = (data = c.bond_id_)]

\* SafetyClient::processSafetyMessage, buggy variant: any node id is taken as the own id
processSafetyMessage_AnyId(c, data) ==
    IF data # fatal_message_
        THEN [c EXCEPT !.safety_active_ = TRUE]
    ELSE [c EXCEPT !.safety_active_ = TRUE, !.fatal_active_ = TRUE]

\* SafetyClient::processSafetyMessage, buggy variant: the own id is handled like FATAL
processSafetyMessage_IdIsFatal(c, data) ==
    IF data = c.bond_id_ \/ data = fatal_message_
        THEN [c EXCEPT !.safety_active_ = TRUE, !.fatal_active_ = TRUE]
    ELSE c

\* SafetyClient::processSafetyMessage
processSafetyMessage(c, data) ==
    IF data = c.bond_id_
        THEN [c EXCEPT !.safety_active_ = TRUE]
    ELSE IF data = fatal_message_
        THEN [c EXCEPT !.safety_active_ = TRUE, !.fatal_active_ = TRUE]
    ELSE c

\* SafetyClient::isSafetyActive
isSafetyActive(c) == c.safety_active_

\* SafetyClient::isFatalActive
isFatalActive(c) == c.fatal_active_

\* SafetyClient::onBroken
onBroken(c) ==
    [c EXCEPT !.broken_ = TRUE, !.formed_ = FALSE,
              !.fatal_active_ = TRUE, !.safety_active_ = TRUE]

\* SafetyClient::onFormed, buggy variant: a formed bond also clears the flags
onFormed_ClearsFlags(c) ==
    [c EXCEPT !.broken_ = FALSE, !.formed_ = TRUE,
              !.fatal_active_ = FALSE, !.safety_active_ = FALSE]

\* SafetyClient::onFormed
onFormed(c) ==
    [c EXCEPT !.broken_ = FALSE, !.formed_ = TRUE]

----------------------------------------------------------------------------
(* The SafetyClient objects that exist: those in the vector, then the one  *)
(* still held by bond_ptr.  All of them are subscribed and have a bond.    *)

AllClients == bonds \o bond_ptr

\* Writes back a same-length update of AllClients.
SetClients(cs) ==
    /\ bonds' = SubSeq(cs, 1, Len(bonds))
    /\ bond_ptr' = SubSeq(cs, Len(bonds) + 1, Len(cs))

Min(a, b) == IF a < b THEN a ELSE b

N == Len(bond_ids)

\* Strings that other nodes may publish on the topic.
ExtMsgs == {bond_ids[i] : i \in 1..N} \cup {fatal_message_, OtherMsg}

----------------------------------------------------------------------------
(* main(): evaluation and decision *)

\* One iteration of the evaluation loop, buggy variant: plain assignment instead of std::min
EvalBody_Assign(b, i, l) ==
    LET l1 == IF isSafetyActive(b[i + 1]) THEN i ELSE l
    IN  IF isFatalActive(b[i + 1]) THEN i - 1 ELSE l1

\* One iteration of the evaluation loop, buggy variant: fatal decrements the running value
EvalBody_Decrement(b, i, l) ==
    LET l1 == IF isSafetyActive(b[i + 1]) THEN Min(i, l) ELSE l
    IN  IF isFatalActive(b[i + 1]) THEN l1 - 1 ELSE l1

\* One iteration of the evaluation loop, buggy variant: fatal handled like safety (i, not i-1)
EvalBody_FatalSameIndex(b, i, l) ==
    LET l1 == IF isSafetyActive(b[i + 1]) THEN Min(i, l) ELSE l
    IN  IF isFatalActive(b[i + 1]) THEN Min(i, l1) ELSE l1

\* One iteration of the evaluation loop, buggy variant: safety handled like fatal (i-1, not i)
EvalBody_SafetyOneLower(b, i, l) ==
    LET l1 == IF isSafetyActive(b[i + 1]) THEN Min(i - 1, l) ELSE l
    IN  IF isFatalActive(b[i + 1]) THEN Min(i - 1, l1) ELSE l1

\* One iteration of the evaluation loop for the code's index i (0-based)
EvalBody(b, i, l) ==
    LET l1 == IF isSafetyActive(b[i + 1]) THEN Min(i, l) ELSE l
    IN  IF isFatalActive(b[i + 1]) THEN Min(i - 1, l1) ELSE l1

\* The evaluation loop from the code's index i on
RECURSIVE EvalFrom(_, _, _)
EvalFrom(b, i, l) ==
    IF i < Len(b) THEN EvalFrom(b, i + 1, EvalBody(b, i, l)) ELSE l

\* The range assertion after the evaluation loop
InLegalRange(b, l) == (l > -2) /\ (l < Len(b))

\* What a cycle publishes, buggy variant: index one too high
Decision_OffByOne(b, l) ==
    IF l > -1 /\ l < Len(b) - 1 THEN << b[l + 2].bond_id_ >>
    ELSE IF l < 0 THEN << "FATAL" >>
    ELSE << >>

\* What a cycle publishes, buggy variant: <= instead of < in the upper test
Decision_Inclusive(b, l) ==
    IF l > -1 /\ l <= Len(b) - 1 THEN << b[l + 1].bond_id_ >>
    ELSE IF l < 0 THEN << "FATAL" >>
    ELSE << >>

\* What a cycle publishes, as the sequence of published strings
Decision(b, l) ==
    IF l > -1 /\ l < Len(b) - 1 THEN << b[l + 1].bond_id_ >>
    ELSE IF l < 0 THEN << "FATAL" >>
    ELSE << >>

----------------------------------------------------------------------------
(* Initial state: the parameter is loaded and non-empty, line 61 has run.  *)

Init ==
    /\ bond_ids \in { SubSeq(IdPool, 1, n) : n \in 1..MaxN }
    /\ lowest_safe_priority = Len(bond_ids) - 1
    /\ bonds = << >>
    /\ bond_ptr = << >>
    /\ it = 0
    /\ success = "none"
    /\ pc = "for"
    /\ ok = TRUE
    /\ pubs = << >>
    /\ chan = {}

----------------------------------------------------------------------------
(* Startup *)

\* Next id of the range-for: construct the client and enter formBond()
FormBondCall ==
    /\ pc = "for"
    /\ it < N
    /\ bond_ptr' = << NewClient(bond_ids[it + 1]) >>
    /\ pc' = "wait"
    /\ UNCHANGED <<bond_ids, lowest_safe_priority, bonds, it, success, ok, pubs, chan>>

\* The range-for is exhausted: every bond was made
ForEnd ==
    /\ pc = "for"
    /\ it = N
    /\ pc' = "eval"
    /\ UNCHANGED <<bond_ids, lowest_safe_priority, bonds, bond_ptr, it, success, ok, pubs, chan>>

\* The values waitUntilSafe() can return now.  With ros::ok() false the
\* function flows off its end without a return statement: any value.
WaitResults(c) ==
    IF ~ok THEN BOOLEAN
    ELSE IF c.broken_ THEN {FALSE}
    ELSE IF c.formed_ THEN {TRUE}
    ELSE {}

\* formBond() returns true: the client is pushed and the range-for advances
FormBondTrue ==
    /\ pc = "wait"
    /\ TRUE \in WaitResults(bond_ptr[1])
    /\ success' = "true"
    /\ bonds' = Append(bonds, bond_ptr[1])
    /\ bond_ptr' = << >>
    /\ it' = it + 1
    /\ pc' = "for"
    /\ UNCHANGED <<bond_ids, lowest_safe_priority, ok, pubs, chan>>

\* formBond() returns false, buggy variant: lowest_safe_priority is not seeded to -1
FormBondFalse_NoSeed ==
    /\ pc = "wait"
    /\ FALSE \in WaitResults(bond_ptr[1])
    /\ success' = "false"
    /\ bonds' = Append(bonds, bond_ptr[1])
    /\ bond_ptr' = << >>
    /\ pc' = "eval"
    /\ UNCHANGED <<bond_ids, lowest_safe_priority, it, ok, pubs, chan>>

\* formBond() returns false: seed fatal, push the client, leave the range-for
FormBondFalse ==
    /\ pc = "wait"
    /\ FALSE \in WaitResults(bond_ptr[1])
    /\ success' = "false"
    /\ lowest_safe_priority' = -1
    /\ bonds' = Append(bonds, bond_ptr[1])
    /\ bond_ptr' = << >>
    /\ pc' = "eval"
    /\ UNCHANGED <<bond_ids, it, ok, pubs, chan>>

\* waitUntilSafe(): neither flag is set, go on to spinOnce()
WaitSpin ==
    /\ pc = "wait"
    /\ ok
    /\ ~bond_ptr[1].broken_
    /\ ~bond_ptr[1].formed_
    /\ pc' = "wait_spin"
    /\ UNCHANGED <<bond_ids, lowest_safe_priority, bonds, bond_ptr, it, success, ok, pubs, chan>>

----------------------------------------------------------------------------
(* Callbacks, run by ros::spinOnce() *)

\* Where callbacks can run, buggy variant: spinOnce() is also called between
\* the evaluation and the publication
InSpinOnce_BeforePublish == pc \in {"wait_spin", "spin", "publish"}

InSpinOnce == pc \in {"wait_spin", "spin"}

\* The bond of client j reports broken
BondBroken(j) ==
    /\ InSpinOnce
    /\ SetClients([AllClients EXCEPT ![j] = onBroken(@)])
    /\ UNCHANGED <<bond_ids, lowest_safe_priority, it, success, pc, ok, pubs, chan>>

\* The bond of client j reports formed
BondFormed(j) ==
    /\ InSpinOnce
    /\ SetClients([AllClients EXCEPT ![j] = onFormed(@)])
    /\ UNCHANGED <<bond_ids, lowest_safe_priority, it, success, pc, ok, pubs, chan>>

\* A message published by another node reaches the subscribers
ExtMessage(m) ==
    /\ InSpinOnce
    /\ SetClients([j \in 1..Len(AllClients) |-> processSafetyMessage(AllClients[j], m)])
    /\ UNCHANGED <<bond_ids, lowest_safe_priority, it, success, pc, ok, pubs, chan>>

\* A message published by this node reaches its own subscribers
OwnMessage(m) ==
    /\ InSpinOnce
    /\ m \in chan
    /\ chan' = chan \ {m}
    /\ SetClients([j \in 1..Len(AllClients) |-> processSafetyMessage(AllClients[j], m)])
    /\ UNCHANGED <<bond_ids, lowest_safe_priority, it, success, pc, ok, pubs>>

\* spinOnce() and the sleep return
SpinReturn ==
    /\ InSpinOnce
    /\ pc' = IF pc = "wait_spin" THEN "wait" ELSE "eval"
    /\ UNCHANGED <<bond_ids, lowest_safe_priority, bonds, bond_ptr, it, success, ok, pubs, chan>>

\* A shutdown request: ros::ok() turns false
Shutdown ==
    /\ ok
    /\ pc \notin {"done", "abort"}
    /\ ok' = FALSE
    /\ UNCHANGED <<bond_ids, lowest_safe_priority, bonds, bond_ptr, it, success, pc, pubs, chan>>

----------------------------------------------------------------------------
(* Main loop *)

\* The evaluation loop and the range assertion
Evaluate ==
    /\ pc = "eval"
    /\ lowest_safe_priority' = EvalFrom(bonds, 0, lowest_safe_priority)
    /\ pubs' = << >>
    /\ pc' = IF InLegalRange(bonds, lowest_safe_priority') THEN "publish" ELSE "abort"
    /\ UNCHANGED <<bond_ids, bonds, bond_ptr, it, success, ok, chan>>

\* The decision: publish a node id, "FATAL", or nothing
Publish ==
    /\ pc = "publish"
    /\ pubs' = Decision(bonds, lowest_safe_priority)
    /\ chan' = chan \cup { pubs'[k] : k \in 1..Len(pubs') }
    /\ pc' = "ok_check"
    /\ UNCHANGED <<bond_ids, lowest_safe_priority, bonds, bond_ptr, it, success, ok>>

\* The shutdown test, buggy variant: the test is inverted
OkCheck_Inverted ==
    /\ pc = "ok_check"
    /\ pc' = IF ~ok THEN "spin" ELSE "done"
    /\ UNCHANGED <<bond_ids, lowest_safe_priority, bonds, bond_ptr, it, success, ok, pubs, chan>>

\* The shutdown test: leave the loop, or go on to spinOnce()
OkCheck ==
    /\ pc = "ok_check"
    /\ pc' = IF ok THEN "spin" ELSE "done"
    /\ UNCHANGED <<bond_ids, lowest_safe_priority, bonds, bond_ptr, it, success, ok, pubs, chan>>

----------------------------------------------------------------------------

Next ==
    \/ FormBondCall
    \/ ForEnd
    \/ FormBondTrue
    \/ FormBondFalse
    \/ WaitSpin
    \/ \E j \in 1..Len(AllClients) : BondBroken(j)
    \/ \E j \in 1..Len(AllClients) : BondFormed(j)
    \/ \E m \in ExtMsgs : ExtMessage(m)
    \/ \E m \in chan : OwnMessage(m)
    \/ SpinReturn
    \/ Shutdown
    \/ Evaluate
    \/ Publish
    \/ OkCheck

Spec == Init /\ [][Next]_vars

TypeOK ==
    /\ lowest_safe_priority \in -1..MaxN
    /\ pc \in {"for", "wait", "wait_spin", "eval", "publish", "ok_check", "spin", "done", "abort"}
    /\ Len(bond_ptr) <= 1
    /\ Len(bonds) <= N

----------------------------------------------------------------------------
(* Properties *)

\* Both flags of client j (position in AllClients) are set
BothActive(j) == AllClients[j].safety_active_ /\ AllClients[j].fatal_active_

\* No flag of any client in the vector is set
NoneActive == \A j \in 1..Len(bonds) : ~bonds[j].safety_active_ /\ ~bonds[j].fatal_active_

\* main() is in its loop (the evaluation of the current cycle has run)
AfterEval == pc \in {"publish", "ok_check", "done"}

\* main() is past the publication of the current cycle, before the next spinOnce()
AfterPublish == pc \in {"ok_check", "done"}

\* The range-for ran to its end: every formBond() returned true
StartupSucceeded ==
    /\ pc \in {"eval", "publish", "ok_check", "spin", "done"}
    /\ success = "true"
    /\ it = N

\* C1: lowest_safe_priority is non-increasing: no step of main() and no
\* callback raises it above its previous value.
C1_Monotone == [][lowest_safe_priority' <= lowest_safe_priority]_vars

C1_Witness ==
    /\ StartupSucceeded
    /\ pc = "publish"
    /\ lowest_safe_priority < N - 1
    /\ lowest_safe_priority > -1

\* C2: in every state and for every SafetyClient, fatal_active_ implies
\* safety_active_.
C2_FatalImpliesSafety ==
    \A j \in 1..Len(AllClients) :
        AllClients[j].fatal_active_ => AllClients[j].safety_active_

C2_Witness ==
    \E j \in 1..Len(AllClients) :
        /\ AllClients[j].fatal_active_
        /\ AllClients[j].safety_active_
        /\ ~AllClients[j].broken_

\* C3: a step that runs onBroken on a client leaves both of its flags set,
\* and once both are set every later step (messages, onFormed, onBroken,
\* main()) leaves both set.
C3_BrokenAbsorbing ==
    [][ \A j \in 1..Len(AllClients) :
            (BondBroken(j) \/ BothActive(j)) => BothActive(j)' ]_vars

C3_Witness ==
    /\ Len(bonds) >= 2
    /\ ~bonds[1].fatal_active_
    /\ BothActive(2)
    /\ bonds[2].formed_
    /\ ~bonds[2].broken_
    /\ pc = "ok_check"
    /\ lowest_safe_priority = 0

\* C4: each of safety_active_ and fatal_active_ is monotonic: no step resets
\* a set flag of any client.
C4_FlagsMonotonic ==
    [][ \A j \in 1..Len(AllClients) :
            /\ AllClients[j].safety_active_ => AllClients'[j].safety_active_
            /\ AllClients[j].fatal_active_ => AllClients'[j].fatal_active_ ]_vars

C4_Witness ==
    \E j \in 1..Len(bonds) :
        /\ bonds[j].safety_active_
        /\ ~bonds[j].fatal_active_
        /\ pc = "eval"
        /\ lowest_safe_priority = j - 1

\* C5: a cycle publishes at most one message; it is "FATAL", or the id held
\* at index lowest_safe_priority of the vector, that index being valid and
\* the id being one of the configured ids.
C5_DecisionRange ==
    /\ Len(pubs) <= 1
    /\ \A k \in 1..Len(pubs) :
        \/ pubs[k] = "FATAL"
        \/ /\ lowest_safe_priority >= 0
           /\ lowest_safe_priority < Len(bonds)
           /\ pubs[k] = bonds[lowest_safe_priority + 1].bond_id_
           /\ pubs[k] \in { bond_ids[i] : i \in 1..N }

C5_Witness ==
    /\ Len(pubs) = 1
    /\ pubs[1] # "FATAL"
    /\ pubs[1] \in { bond_ids[i] : i \in 1..N }

\* C6: after every evaluation pass -1 <= lowest_safe_priority < N (and below
\* the size of the vector), so the range assertion never fails.
C6_LegalRange ==
    /\ pc # "abort"
    /\ pc \in {"publish", "ok_check", "spin", "done"} =>
        /\ lowest_safe_priority >= -1
        /\ lowest_safe_priority < N
        /\ lowest_safe_priority < Len(bonds)

C6_Witness ==
    /\ pc = "publish"
    /\ Len(bonds) >= 2
    /\ \A j \in 1..Len(bonds) : bonds[j].fatal_active_
    /\ lowest_safe_priority = -1

\* C7: when formBond() returned false for the node at index k (= it), no
\* client exists past index k, the failed client is the last element of the
\* vector (size k+1), lowest_safe_priority is -1, main() is in its loop and
\* not aborted, and every cycle, the first included, publishes "FATAL".
C7_StartupFailure ==
    success = "false" =>
        /\ Len(bonds) = it + 1
        /\ bond_ptr = << >>
        /\ bonds[it + 1].bond_id_ = bond_ids[it + 1]
        /\ lowest_safe_priority = -1
        /\ pc \in {"eval", "publish", "ok_check", "spin", "done"}
        /\ AfterPublish \/ pc = "spin" => pubs = << "FATAL" >>

C7_Witness ==
    /\ success = "false"
    /\ it >= 1
    /\ it < N - 1
    /\ ok
    /\ pc = "ok_check"
    /\ pubs = << "FATAL" >>

\* C8: when the bond of the node at index 0 is broken (its client has
\* broken_ or fatal_active_ set), the evaluation pass leaves
\* lowest_safe_priority at -1 and the cycle publishes "FATAL".
C8_SeniorBroken ==
    (Len(bonds) >= 1 /\ (bonds[1].broken_ \/ bonds[1].fatal_active_)) =>
        /\ AfterEval => lowest_safe_priority = -1
        /\ AfterPublish => pubs = << "FATAL" >>

C8_Witness ==
    /\ StartupSucceeded
    /\ N >= 2
    /\ bonds[1].broken_
    /\ \A j \in 2..Len(bonds) : ~bonds[j].safety_active_
    /\ pc = "ok_check"
    /\ pubs = << "FATAL" >>

\* The scenario of C9: nodes A, B, C, every bond formed, and the only flag
\* set is safety_active_ of B (index 1), as after B published its own id.
C9_Scenario ==
    /\ bond_ids = << "A", "B", "C" >>
    /\ StartupSucceeded
    /\ \A j \in 1..Len(bonds) : bonds[j].formed_ /\ ~bonds[j].broken_
    /\ bonds[2].safety_active_ /\ ~bonds[2].fatal_active_
    /\ ~bonds[1].safety_active_ /\ ~bonds[1].fatal_active_
    /\ ~bonds[3].safety_active_ /\ ~bonds[3].fatal_active_

\* C9 as stated: in that scenario the cycle sets lowest_safe_priority to 1 and
\* publishes "A".
C9_Original ==
    (C9_Scenario /\ AfterPublish) =>
        (lowest_safe_priority = 1 /\ pubs = << "A" >>)

\* C9 amended: in that scenario the cycle sets lowest_safe_priority to 1 and
\* publishes "B", the id at index 1.
C9_SelfReport ==
    (C9_Scenario /\ AfterPublish) =>
        (lowest_safe_priority = 1 /\ pubs = << "B" >>)

C9_Witness ==
    /\ C9_Scenario
    /\ pc = "ok_check"
    /\ pubs = << "B" >>

\* C10: when every formBond() returned true and no client has a flag set,
\* lowest_safe_priority is N-1 and nothing is or has been published by any
\* cycle.
C10_SteadyState ==
    (StartupSucceeded /\ NoneActive) =>
        /\ lowest_safe_priority = N - 1
        /\ pubs = << >>
        /\ chan = {}

C10_Witness ==
    /\ StartupSucceeded
    /\ NoneActive
    /\ N = 3
    /\ \A j \in 1..Len(bonds) : bonds[j].formed_
    /\ pc = "spin"

\* C11 as stated: a cycle that published nothing finds no flag set on any
\* node record.
C11_Original ==
    (AfterPublish /\ pubs = << >>) => NoneActive

\* C11 amended: a cycle that published nothing has lowest_safe_priority at
\* the last index; no record has fatal_active_ set and no record other than
\* the most junior one has safety_active_ set.
C11_SilentCycle ==
    (AfterPublish /\ pubs = << >>) =>
        /\ lowest_safe_priority = Len(bonds) - 1
        /\ Len(bonds) = N
        /\ \A j \in 1..Len(bonds) :
            /\ ~bonds[j].fatal_active_
            /\ j < Len(bonds) => ~bonds[j].safety_active_

C11_Witness ==
    /\ pc = "ok_check"
    /\ pubs = << >>
    /\ chan = {}
    /\ bonds[Len(bonds)].safety_active_

\* C12 as stated: when a node id is published, the named node and every
\* more senior node have neither flag set (here for the runs in which every
\* bond formed and no shutdown was requested).
C12_Original ==
    (/\ AfterPublish /\ Len(pubs) = 1 /\ pubs[1] # "FATAL"
     /\ ok /\ \A j \in 1..Len(bonds) : bonds[j].formed_) =>
        \A j \in 1..(lowest_safe_priority + 1) :
            ~bonds[j].safety_active_ /\ ~bonds[j].fatal_active_

\* C12 amended: when a node id is published, the named node and every more
\* senior node have fatal_active_ unset, and every node strictly more senior
\* than the named one has safety_active_ unset.
C12_AuthoritySafe ==
    (AfterPublish /\ Len(pubs) = 1 /\ pubs[1] # "FATAL") =>
        /\ pubs[1] = bonds[lowest_safe_priority + 1].bond_id_
        /\ \A j \in 1..(lowest_safe_priority + 1) :
            /\ ~bonds[j].fatal_active_
            /\ j < lowest_safe_priority + 1 => ~bonds[j].safety_active_

C12_Witness ==
    /\ pc = "ok_check"
    /\ Len(pubs) = 1
    /\ pubs[1] = "B"
    /\ bonds[2].safety_active_
    /\ ~bonds[1].safety_active_

\* C13: formBond() returns true only when onFormed has fired (formed_ is set)
\* and false only when onBroken has fired (broken_ is set); it ends in no
\* other way.
C13_TwoOutcomes ==
    [][ /\ FormBondTrue => (bond_ptr[1].formed_ /\ ~bond_ptr[1].broken_)
        /\ FormBondFalse => bond_ptr[1].broken_ ]_vars

\* C14: once a client has recorded its bond as broken (broken_ set, formed_
\* unset) no later step makes it report not-broken or formed.
C14_BrokenIsFinal ==
    [][ \A j \in 1..Len(AllClients) :
            (AllClients[j].broken_ /\ ~AllClients[j].formed_) =>
                (AllClients'[j].broken_ /\ ~AllClients'[j].formed_) ]_vars

\* C15: callbacks run only at a yield point (inside spinOnce()), so the flags
\* do not change between an evaluation pass and the shutdown test after the
\* publication; and after an evaluation pass every flag that was set at the
\* yield point before it is reflected: safety_active_ of node i gives
\* lowest_safe_priority <= i, fatal_active_ of node i gives
\* lowest_safe_priority <= i - 1.
C15_CallbacksVisible ==
    /\ [][ (AllClients' # AllClients /\ Len(AllClients') = Len(AllClients))
              => (pc \in {"wait_spin", "spin"} /\ pc' = pc) ]_vars
    /\ [][ (pc \in {"eval", "publish", "ok_check"}) => (bonds' = bonds) ]_vars
    /\ [][ (pc = "eval" /\ pc' # "eval") =>
             \A j \in 1..Len(bonds) :
                /\ bonds[j].safety_active_ => lowest_safe_priority' <= j - 1
                /\ bonds[j].fatal_active_ => lowest_safe_priority' <= j - 2 ]_vars

C15_Witness ==
    /\ pc = "publish"
    /\ Len(bonds) = 3
    /\ bonds[3].fatal_active_
    /\ bonds[2].safety_active_
    /\ ~bonds[2].fatal_active_
    /\ lowest_safe_priority = 1

\* C16 as stated: once shutdown has been requested the loop goes to its exit
\* without starting another evaluation; in particular a request that arrives
\* at the yield point (during spinOnce() or the sleep) is not followed by an
\* evaluation.
C16_Original ==
    [][ (~ok /\ pc = "spin") => pc' # "eval" ]_vars

\* C16 amended: the loop exits at the first shutdown test reached after the
\* request (a request that arrives during spinOnce() or the sleep is followed
\* by one more evaluation and publication); after the request no spinOnce()
\* of the loop is entered; the request changes neither
\* lowest_safe_priority nor the flags nor anything published, and what a
\* cycle publishes is the decision for lowest_safe_priority whether or not
\* shutdown was requested.
C16_ShutdownExit ==
    /\ [][ (pc = "ok_check" /\ ~ok) =>
             (pc' = "done" /\ UNCHANGED <<lowest_safe_priority, bonds, pubs, chan>>) ]_vars
    /\ [][ (~ok /\ pc # "spin") => pc' # "spin" ]_vars
    /\ [][ (pc = "done") => UNCHANGED vars ]_vars
    /\ [][ (ok /\ ~ok') =>
             UNCHANGED <<lowest_safe_priority, bonds, bond_ptr, pubs, chan, pc>> ]_vars
    /\ [][ (pc = "publish" /\ pc' # "publish") =>
             pubs' = IF lowest_safe_priority > -1 /\ lowest_safe_priority < Len(bonds) - 1
                         THEN << bond_ids[lowest_safe_priority + 1] >>
                     ELSE IF lowest_safe_priority < 0 THEN << "FATAL" >>
                     ELSE << >> ]_vars

C16_Witness ==
    /\ pc = "done"
    /\ ~ok
    /\ success = "true"
    /\ Len(pubs) = 1
    /\ pubs[1] # "FATAL"

\* C17: a step that delivers message m to the clients leaves every client
\* whose id is not m unchanged when m is not "FATAL", and changes broken_ and
\* formed_ of no client whatever m is.
C17_MessageFrame ==
    [][ \A m \in ExtMsgs \cup chan :
            (ExtMessage(m) \/ OwnMessage(m)) =>
                \A j \in 1..Len(AllClients) :
                    /\ (m # AllClients[j].bond_id_ /\ m # "FATAL") =>
                            AllClients'[j] = AllClients[j]
                    /\ AllClients'[j].broken_ = AllClients[j].broken_
                    /\ AllClients'[j].formed_ = AllClients[j].formed_ ]_vars

C17_Witness ==
    /\ pc = "spin"
    /\ Len(bonds) = 3
    /\ bonds[3].safety_active_
    /\ ~bonds[3].fatal_active_
    /\ \A j \in 1..2 :
        /\ ~bonds[j].safety_active_
        /\ ~bonds[j].fatal_active_
        /\ bonds[j].formed_

\* The vector after message m was processed by every client in it
Delivered(m) == [j \in 1..Len(bonds) |-> processSafetyMessage(bonds[j], m)]

\* C18: after a publication, delivering any message this node has published
\* and that is still in flight (the one just published included) to its own
\* clients, with no other event, gives an evaluation pass that leaves
\* lowest_safe_priority unchanged.
C18_FixedPoint ==
    AfterPublish =>
        \A m \in chan \cup { pubs[k] : k \in 1..Len(pubs) } :
            EvalFrom(Delivered(m), 0, lowest_safe_priority) = lowest_safe_priority

C18_Witness ==
    /\ pc = "ok_check"
    /\ Len(pubs) = 1
    /\ pubs[1] # "FATAL"
    /\ pubs[1] \in chan
    /\ ~bonds[lowest_safe_priority + 1].safety_active_

\* The startup seed: -1 when a formBond() failed, N-1 otherwise
Seed0 == IF success = "false" THEN -1 ELSE N - 1

\* The values the current flags of the vector bound lowest_safe_priority by
FlagBounds ==
    { j - 1 : j \in { k \in 1..Len(bonds) : bonds[k].safety_active_ } }
        \cup { j - 2 : j \in { k \in 1..Len(bonds) : bonds[k].fatal_active_ } }

\* The least element of a non-empty set of integers
Least(S) == CHOOSE x \in S : \A y \in S : x <= y

\* C19: after every evaluation pass lowest_safe_priority equals the least of
\* the startup seed, the indices i of the safety-active nodes and i-1 for the
\* fatal-active nodes, taken from the current flags.
C19_Reference ==
    AfterEval => lowest_safe_priority = Least({Seed0} \cup FlagBounds)

C19_Witness ==
    /\ pc = "publish"
    /\ success = "true"
    /\ Len(bonds) = 3
    /\ bonds[2].fatal_active_
    /\ bonds[3].safety_active_
    /\ ~bonds[1].safety_active_
    /\ lowest_safe_priority = 0

\* The 0-based index of a configured id
IndexOf(id) == CHOOSE i \in 0..(N - 1) : bond_ids[i + 1] = id

\* What the cycle that begins with this evaluation step will publish
NextPubs == Decision(bonds', lowest_safe_priority')

\* C20: at the start of a cycle (pubs still holds what the previous cycle
\* published): if the previous cycle published, this one publishes too; a
\* published id has an index no higher than the previously published id; and
\* after "FATAL" only "FATAL" is published.  Every cycle publishes what the
\* decision for the evaluated lowest_safe_priority is.
C20_NoRecovery ==
    /\ [][ (pc = "eval" /\ pc' = "publish") =>
             /\ Len(pubs) = 1 => Len(NextPubs) = 1
             /\ (Len(pubs) = 1 /\ pubs[1] = "FATAL") => NextPubs = << "FATAL" >>
             /\ (Len(pubs) = 1 /\ pubs[1] # "FATAL" /\ NextPubs # << "FATAL" >>) =>
                    IndexOf(NextPubs[1]) <= IndexOf(pubs[1]) ]_vars
    /\ [][ (pc = "publish" /\ pc' = "ok_check") =>
             pubs' = Decision(bonds, lowest_safe_priority) ]_vars

C20_Witness ==
    /\ pc = "eval"
    /\ Len(pubs) = 1
    /\ pubs[1] = "B"
    /\ bonds[1].safety_active_
    /\ ~bonds[1].fatal_active_

====
